---- MODULE Spec2Model ----
(***************************************************************************)
(* os_keystone_endpoint: reconciliation of one identity-service endpoint   *)
(* against a desired descriptor.  The remote control plane (services and   *)
(* endpoints) is the only persistent state; every invocation of main()     *)
(* reads it through search_services / search_endpoints and changes it      *)
(* through create_endpoint / update_endpoint / delete_endpoint.            *)
(* An invocation is split at its remote calls: every action below is one   *)
(* remote call together with the local code that follows it up to the next *)
(* remote call or the exit.                                                *)
(***************************************************************************)
EXTENDS Integers, FiniteSets, Sequences, TLC

\* Python's None, as a parameter value or an attribute value.
NONE == "None"

\* ------------------------------------------------------------- bounds
\* Largest endpoint id the remote hands out.
MaxId == 5

\* Invocations (processes).  Spec runs invocation 1 only, one run after the
\* other.
Procs == {1, 2}

\* ------------------------------------------------------------- inputs
Interfaces == {"public", "internal"}
Urls == {"u1", "u2"}
Regions == {"r1", "r2"}
States == {"present", "absent"}
\* module.params['enabled'] has no declared type: it arrives as a string.
EnabledParams == {"True", "False"}

\* The v3 form: interface and url together, no v2 url.
V3Descriptors ==
  [service_name : {"keystone"}, service_type : {"identity"},
   interface : Interfaces, url : Urls,
   admin_url : {NONE}, public_url : {NONE}, internal_url : {NONE},
   region : {NONE} \cup Regions, enabled : EnabledParams, state : States]

\* The v2 form: neither interface nor url, at least one of the three urls.
V2Descriptors ==
  {d \in [service_name : {"keystone"}, service_type : {"identity"},
          interface : {NONE}, url : {NONE},
          admin_url : {NONE, "u1"}, public_url : {NONE, "u1"},
          internal_url : {NONE, "u1"},
          region : {NONE, "r1"}, enabled : EnabledParams,
          state : States] :
     d.admin_url # NONE \/ d.public_url # NONE \/ d.internal_url # NONE}

Descriptors == V3Descriptors \cup V2Descriptors

\* AnsibleModule's argument checks.
RequiredOneOf(d) ==
  d.url # NONE \/ d.admin_url # NONE \/ d.internal_url # NONE
    \/ d.public_url # NONE

\* Mutant of MutuallyExclusive: the pair url, public_url is missing.
MutuallyExclusiveWithoutPublic(d) ==
  /\ ~(d.url # NONE /\ d.admin_url # NONE)
  /\ ~(d.url # NONE /\ d.internal_url # NONE)

MutuallyExclusive(d) ==
  /\ ~(d.url # NONE /\ d.admin_url # NONE)
  /\ ~(d.url # NONE /\ d.internal_url # NONE)
  /\ ~(d.url # NONE /\ d.public_url # NONE)

RequiredTogether(d) == (d.interface # NONE) <=> (d.url # NONE)

Valid(d) == RequiredOneOf(d) /\ MutuallyExclusive(d) /\ RequiredTogether(d)

\* enabled = "True" == module.params.get('enabled', True)
Enabled(d) == d.enabled = "True"

\* Python truth of a parameter that is None or a non-empty string.
Truthy(v) == v # NONE

\* ------------------------------------------------------------- remote
Keystone1 == [id |-> "svc1", name |-> "keystone", type |-> "identity"]
Keystone2 == [id |-> "svc2", name |-> "keystone", type |-> "identity"]
Nova == [id |-> "svc3", name |-> "nova", type |-> "compute"]

\* An endpoint of the v3 schema; region is an attribute only when withRegion.
V3Endpoint(id, sid, interface, url, enabled, withRegion, region) ==
  IF withRegion
    THEN [id |-> id, service_id |-> sid, interface |-> interface,
          url |-> url, enabled |-> enabled, region |-> region]
    ELSE [id |-> id, service_id |-> sid, interface |-> interface,
          url |-> url, enabled |-> enabled]

\* An endpoint of the v2 schema.
V2Endpoint(id, sid, publicurl, internalurl, adminurl, enabled, withRegion, region) ==
  IF withRegion
    THEN [id |-> id, service_id |-> sid, publicurl |-> publicurl,
          internalurl |-> internalurl, adminurl |-> adminurl,
          enabled |-> enabled, region |-> region]
    ELSE [id |-> id, service_id |-> sid, publicurl |-> publicurl,
          internalurl |-> internalurl, adminurl |-> adminurl,
          enabled |-> enabled]

\* "no endpoint": what get_endpoint returns as None.
NoEndpoint == [id |-> 0]

\* An endpoint of another service, which no invocation is about.
OtherEndpoint == V3Endpoint(1, "svc3", "public", "u1", TRUE, TRUE, "r1")

VARIABLES
  services,          \* the remote's services
  endpoints,         \* the remote's endpoints
  nextId,            \* the id the remote gives the next endpoint
  desired,           \* module.params
  pc,                \* where each invocation stands
  check_mode,        \* module.check_mode
  service_id,        \* main's service_id
  current_endpoint,  \* main's current_endpoint
  changed,           \* main's changed
  len_services_list, \* len(services_list), -1 until search_services returns
  len_endpoints_list,\* len(endpoints_list), -1 until search_endpoints returns
  calls,             \* the remote calls the invocation has issued, in order
  outcome,           \* "running", "exit_json" or the kind of fail_json
  before,            \* the remote's endpoints when the invocation started
  last,              \* the previous invocation: mode, outcome, changed
  computed           \* main's changed when "Check if changes" has ended

vars == <<services, endpoints, nextId, desired, pc, check_mode, service_id,
          current_endpoint, changed, len_services_list, len_endpoints_list,
          calls, outcome, before, last, computed>>

\* ------------------------------------------------------------- initial states
RegionAttrs == {<<FALSE, NONE>>} \cup {<<TRUE, r>> : r \in {NONE} \cup Regions}

\* The shapes one endpoint of the keystone service can have before a run.
InitV3Endpoints ==
  {V3Endpoint(2, "svc1", i, u, e, ra[1], ra[2]) :
     i \in Interfaces, u \in Urls, e \in BOOLEAN, ra \in RegionAttrs}

InitV2Endpoints ==
  {V2Endpoint(2, "svc1", pu, iu, au, TRUE, ra[1], ra[2]) :
     pu \in {NONE, "u1"}, iu \in {NONE, "u1"}, au \in {NONE, "u1"},
     ra \in {<<FALSE, NONE>>, <<TRUE, NONE>>, <<TRUE, "r1">>}}
    \cup {V2Endpoint(2, "svc1", "u1", "u1", "u2", TRUE, TRUE, "r1"),
          V2Endpoint(2, "svc1", "u2", "u1", "u1", TRUE, TRUE, "r1"),
          V2Endpoint(2, "svc1", "u1", "u2", "u1", TRUE, TRUE, "r1"),
          V2Endpoint(2, "svc1", "u1", "u1", "u1", FALSE, TRUE, "r2")}

\* Two endpoints of the keystone service.
InitPairs ==
  {{V3Endpoint(2, "svc1", "public", "u1", TRUE, TRUE, "r1"),
    V3Endpoint(3, "svc1", "internal", "u1", TRUE, TRUE, "r1")},
   {V3Endpoint(2, "svc1", "public", "u1", TRUE, TRUE, "r1"),
    V3Endpoint(3, "svc1", "public", "u2", FALSE, TRUE, "r2")},
   {V2Endpoint(2, "svc1", "u1", "u1", "u1", TRUE, TRUE, "r1"),
    V2Endpoint(3, "svc1", "u1", "u1", "u2", TRUE, TRUE, "r2")}}

\* The sets of keystone endpoints a run can find: none, one of its own
\* schema, one of the other schema, or a pair.
CrossV3 ==
  {V3Endpoint(2, "svc1", "public", "u1", TRUE, TRUE, "r1"),
   V3Endpoint(2, "svc1", "internal", "u2", FALSE, FALSE, NONE)}

CrossV2 ==
  {V2Endpoint(2, "svc1", "u1", "u1", "u1", TRUE, TRUE, "r1"),
   V2Endpoint(2, "svc1", "u1", NONE, "u2", TRUE, FALSE, NONE)}

InitEndpointSets(d) ==
  {{}} \cup InitPairs
    \cup {{e} : e \in IF Truthy(d.url) THEN InitV3Endpoints \cup CrossV2
                                       ELSE InitV2Endpoints \cup CrossV3}

NoRun == [check_mode |-> FALSE, outcome |-> "none", changed |-> FALSE]

\* The initial states whose parameters are drawn from D.
InitWith(D) ==
  /\ desired \in D
  /\ \/ /\ services = {Keystone1, Nova}
        /\ \E es \in InitEndpointSets(desired) :
             endpoints = es \cup {OtherEndpoint}
     \/ /\ services \in {{Nova}, {Keystone1, Keystone2, Nova}}
        /\ endpoints \in {{OtherEndpoint},
                          {OtherEndpoint,
                           V3Endpoint(2, "svc1", "public", "u1", TRUE, TRUE,
                                      "r1")}}
  /\ nextId = 4
  /\ pc = [p \in Procs |-> "idle"]
  /\ check_mode = [p \in Procs |-> FALSE]
  /\ service_id = [p \in Procs |-> NONE]
  /\ current_endpoint = [p \in Procs |-> NoEndpoint]
  /\ changed = [p \in Procs |-> FALSE]
  /\ len_services_list = [p \in Procs |-> -1]
  /\ len_endpoints_list = [p \in Procs |-> -1]
  /\ calls = [p \in Procs |-> <<>>]
  /\ outcome = [p \in Procs |-> "none"]
  /\ before = [p \in Procs |-> {}]
  /\ last = [p \in Procs |-> NoRun]
  /\ computed = [p \in Procs |-> FALSE]

\* Parameters that pass the argument checks.
Init == InitWith({d \in Descriptors : Valid(d)})

\* Parameters as a caller may give them, before any argument check: every
\* combination of the url parameters and the interface, set or not.
AnyDescriptors ==
  [service_name : {"keystone"}, service_type : {"identity"},
   interface : {NONE} \cup Interfaces, url : {NONE, "u1"},
   admin_url : {NONE, "u1"}, public_url : {NONE, "u1"},
   internal_url : {NONE, "u1"}, region : {NONE},
   enabled : {"True"}, state : States]

\* Any parameters, checked or refused.
InitAnyInput ==
  InitWith({d \in Descriptors : Valid(d)} \cup AnyDescriptors)

\* ------------------------------------------------------------- the remote's API
\* cloud.search_services(filters={'name': ..., 'type': ...})
search_services(name, type) ==
  {s \in services : s.name = name /\ s.type = type}

\* The filters get_endpoint passes to cloud.search_endpoints.
EndpointFilters(service, interface) ==
  IF Truthy(interface)
    THEN [service_id |-> service, interface |-> interface]
    ELSE [service_id |-> service]

\* cloud.search_endpoints(filters=...): the endpoints that carry every
\* filtered attribute with the filter's value.
search_endpoints(filters) ==
  {e \in endpoints :
     \A k \in DOMAIN filters : k \in DOMAIN e /\ e[k] = filters[k]}

\* cloud.create_endpoint(service_id, interface=, url=, region=, enabled=,
\*                       public_url=, internal_url=, admin_url=)
create_endpoint(id, sid, interface, url, region, enabled, public_url, internal_url, admin_url) ==
  IF Truthy(url)
    THEN V3Endpoint(id, sid, interface, url, enabled, TRUE, region)
    ELSE V2Endpoint(id, sid, public_url, internal_url, admin_url, enabled,
                    TRUE, region)

\* Mutant of update_endpoint: the update also carries the desired enabled.
update_endpoint_with_enabled(e, url, interface, region) ==
  {[id |-> e.id, service_id |-> e.service_id, interface |-> interface,
    url |-> url, enabled |-> Enabled(desired), region |-> region]}

\* cloud.update_endpoint(id, url=, interface=, region=): the endpoints e can
\* become.  A null region either clears the region or leaves it as it is.
update_endpoint(e, url, interface, region) ==
  LET base == [id |-> e.id, service_id |-> e.service_id,
               interface |-> interface, url |-> url, enabled |-> e.enabled]
      set == [id |-> e.id, service_id |-> e.service_id,
              interface |-> interface, url |-> url, enabled |-> e.enabled,
              region |-> region]
      kept == IF "region" \in DOMAIN e
                THEN [id |-> e.id, service_id |-> e.service_id,
                      interface |-> interface, url |-> url,
                      enabled |-> e.enabled, region |-> e.region]
                ELSE base
  IN  IF region = NONE THEN {set, kept} ELSE {set}

\* cloud.delete_endpoint(id)
\* A delete that takes every endpoint of the service of the endpoint: what
\* delete_endpoint is not.
delete_endpoints_of_service(id) ==
  {e \in endpoints : \A c \in endpoints : c.id = id => e.service_id # c.service_id}

delete_endpoint(id) == {e \in endpoints : e.id # id}

\* ------------------------------------------------------------- main's local code
HasAttr(e, a) == a \in DOMAIN e

\* hasattr(e, a) and e.a != v or not hasattr(e, a) and v is not None
AttrDiffers(e, a, v) ==
  (HasAttr(e, a) /\ e[a] # v) \/ (~HasAttr(e, a) /\ v # NONE)

\* Mutant of ComputeChanged: enabled is not compared.
ComputeChangedWithoutEnabled(cur, d) ==
  IF cur = NoEndpoint
    THEN TRUE
    ELSE \/ AttrDiffers(cur, "region", d.region)
         \/ IF Truthy(d.url)
              THEN cur.url # d.url
              ELSE \/ AttrDiffers(cur, "internalurl", d.internal_url)
                   \/ AttrDiffers(cur, "adminurl", d.admin_url)
                   \/ AttrDiffers(cur, "publicurl", d.public_url)

\* Mutant of ComputeChanged: the public url is not compared.
ComputeChangedWithoutPublicUrl(cur, d) ==
  IF cur = NoEndpoint
    THEN TRUE
    ELSE \/ Truthy(d.url) /\ cur.enabled # Enabled(d)
         \/ AttrDiffers(cur, "region", d.region)
         \/ IF Truthy(d.url)
              THEN cur.url # d.url
              ELSE \/ AttrDiffers(cur, "internalurl", d.internal_url)
                   \/ AttrDiffers(cur, "adminurl", d.admin_url)

\* Mutant of ComputeChanged: the region is not compared.
ComputeChangedWithoutRegion(cur, d) ==
  IF cur = NoEndpoint
    THEN TRUE
    ELSE \/ Truthy(d.url) /\ cur.enabled # Enabled(d)
         \/ IF Truthy(d.url)
              THEN cur.url # d.url
              ELSE \/ AttrDiffers(cur, "internalurl", d.internal_url)
                   \/ AttrDiffers(cur, "adminurl", d.admin_url)
                   \/ AttrDiffers(cur, "publicurl", d.public_url)

\* "Check if changes": the value of changed after the comparison.
ComputeChanged(cur, d) ==
  IF cur = NoEndpoint
    THEN TRUE
    ELSE \/ Truthy(d.url) /\ cur.enabled # Enabled(d)
         \/ AttrDiffers(cur, "region", d.region)
         \/ IF Truthy(d.url)
              THEN cur.url # d.url
              ELSE \/ AttrDiffers(cur, "internalurl", d.internal_url)
                   \/ AttrDiffers(cur, "adminurl", d.admin_url)
                   \/ AttrDiffers(cur, "publicurl", d.public_url)

\* Mutant of CheckModeChanged: the computed value is reported as it is.
CheckModeChangedAsComputed(chg, d) == chg

\* Mutant of CheckModeChanged: the test is on the wrong state.
CheckModeChangedOnPresent(chg, d) ==
  IF chg /\ d.state = "present" THEN FALSE ELSE chg

\* "Handle check mode": the value of changed that check mode reports.
CheckModeChanged(chg, d) == IF chg /\ d.state = "absent" THEN FALSE ELSE chg

\* Mutant of Plan: an existing endpoint is always updated in place.
PlanUpdateInPlace(chg, cur, d) ==
  IF chg
    THEN IF d.state = "present"
           THEN IF cur = NoEndpoint THEN "create" ELSE "update"
           ELSE "exit"
    ELSE IF d.state = "absent" THEN "delete" ELSE "exit"

\* "Do changes": the branch taken, as the place of its first remote call, or
\* "exit" when the branch issues none.
Plan(chg, cur, d) ==
  IF chg
    THEN IF d.state = "present"
           THEN IF cur = NoEndpoint
                  THEN "create"
                  ELSE IF Truthy(d.url) THEN "update" ELSE "delete_recreate"
           ELSE "exit"
    ELSE IF d.state = "absent" THEN "delete" ELSE "exit"

\* The value of changed that a branch without a remote call exits with.
\* The result left as the comparison computed it: what lines 318-319 are not.
PlanChangedAsComputed(chg, d) == chg

PlanChanged(chg, d) == IF chg /\ d.state # "present" THEN FALSE ELSE chg

\* Mutant of Decide: check mode is not handled.
DecideIgnoringCheckMode(mode, cur, d) ==
  LET chg == ComputeChanged(cur, d)
  IN  IF cur = NoEndpoint /\ d.state = "absent"
        THEN [pc |-> "done", changed |-> FALSE]
        ELSE IF Plan(chg, cur, d) = "exit"
          THEN [pc |-> "done", changed |-> PlanChanged(chg, d)]
          ELSE [pc |-> Plan(chg, cur, d), changed |-> chg]

\* Mutant of Decide: nothing to delete is reported as a change.
DecideAbsentChanged(mode, cur, d) ==
  LET chg == ComputeChanged(cur, d)
  IN  IF cur = NoEndpoint /\ d.state = "absent"
        THEN [pc |-> "done", changed |-> TRUE]
        ELSE IF mode
          THEN [pc |-> "done", changed |-> CheckModeChanged(chg, d)]
          ELSE IF Plan(chg, cur, d) = "exit"
            THEN [pc |-> "done", changed |-> PlanChanged(chg, d)]
            ELSE [pc |-> Plan(chg, cur, d), changed |-> chg]

\* main from the return of get_endpoint to its first mutation call or its
\* exit: the place it goes to and the value of changed it has there.
Decide(mode, cur, d) ==
  LET chg == ComputeChanged(cur, d)
  IN  IF cur = NoEndpoint /\ d.state = "absent"
        THEN [pc |-> "done", changed |-> FALSE]
        ELSE IF mode
          THEN [pc |-> "done", changed |-> CheckModeChanged(chg, d)]
          ELSE IF Plan(chg, cur, d) = "exit"
            THEN [pc |-> "done", changed |-> PlanChanged(chg, d)]
            ELSE [pc |-> Plan(chg, cur, d), changed |-> chg]

\* Mutant of ServiceResolved: only "not found" is a failure.
ServiceResolvedAtLeastOne(n) == n >= 1

\* len(services_list) != 1 is a failure.
ServiceResolved(n) == n = 1

\* Mutant of MultipleEndpoints: two matches pass.
MultipleEndpointsOverTwo(n) == n > 2

\* len(endpoints_list) > 1 is a failure.
MultipleEndpoints(n) == n > 1

\* ------------------------------------------------------------- the call log
RemotePcs ==
  {"search_services", "search_endpoints", "create", "update",
   "delete_recreate", "recreate", "delete"}

\* Mutant of CreateCall: the three v2 urls are not passed on.
CreateCallWithoutUrls(p) ==
  [op |-> "create_endpoint", service_id |-> service_id[p],
   interface |-> desired.interface, url |-> desired.url,
   region |-> desired.region, enabled |-> Enabled(desired),
   public_url |-> NONE, internal_url |-> NONE, admin_url |-> NONE]

\* The create_endpoint call of main, in both places.
CreateCall(p) ==
  [op |-> "create_endpoint", service_id |-> service_id[p],
   interface |-> desired.interface, url |-> desired.url,
   region |-> desired.region, enabled |-> Enabled(desired),
   public_url |-> desired.public_url, internal_url |-> desired.internal_url,
   admin_url |-> desired.admin_url]

\* The remote call an invocation at a remote place is about to issue.
PendingCall(p) ==
  CASE pc[p] = "search_services" ->
         [op |-> "search_services", name |-> desired.service_name,
          type |-> desired.service_type]
    [] pc[p] = "search_endpoints" ->
         [op |-> "search_endpoints",
          filters |-> EndpointFilters(service_id[p], desired.interface)]
    [] pc[p] \in {"create", "recreate"} -> CreateCall(p)
    [] pc[p] = "update" ->
         [op |-> "update_endpoint", id |-> current_endpoint[p].id,
          url |-> desired.url, interface |-> desired.interface,
          region |-> desired.region]
    [] pc[p] \in {"delete_recreate", "delete"} ->
         [op |-> "delete_endpoint", id |-> current_endpoint[p].id]

Mutations == {"create_endpoint", "update_endpoint", "delete_endpoint"}

\* The calls of a log with one of the given operations, in order.
CallsOf(log, ops) == SelectSeq(log, LAMBDA c : c.op \in ops)

\* ------------------------------------------------------------- actions
\* The invocation ends: exit_json(changed=chg) or fail_json.
Finish(p, out, chg) ==
  /\ pc' = [pc EXCEPT ![p] = "done"]
  /\ outcome' = [outcome EXCEPT ![p] = out]
  /\ changed' = [changed EXCEPT ![p] = chg]

Issue(p) == calls' = [calls EXCEPT ![p] = Append(calls[p], PendingCall(p))]

\* A new invocation of main(): the argument checks of AnsibleModule, then
\* the parameters are read.
Start(p) ==
  /\ pc[p] \in {"idle", "done"}
  /\ \E m \in BOOLEAN : check_mode' = [check_mode EXCEPT ![p] = m]
  /\ last' = [last EXCEPT ![p] =
                IF pc[p] = "done"
                  THEN [check_mode |-> check_mode[p], outcome |-> outcome[p],
                        changed |-> changed[p]]
                  ELSE last[p]]
  /\ before' = [before EXCEPT ![p] = endpoints]
  /\ calls' = [calls EXCEPT ![p] = <<>>]
  /\ service_id' = [service_id EXCEPT ![p] = NONE]
  /\ current_endpoint' = [current_endpoint EXCEPT ![p] = NoEndpoint]
  /\ changed' = [changed EXCEPT ![p] = FALSE]
  /\ len_services_list' = [len_services_list EXCEPT ![p] = -1]
  /\ len_endpoints_list' = [len_endpoints_list EXCEPT ![p] = -1]
  /\ computed' = [computed EXCEPT ![p] = FALSE]
  /\ IF Valid(desired)
       THEN /\ pc' = [pc EXCEPT ![p] = "search_services"]
            /\ outcome' = [outcome EXCEPT ![p] = "running"]
       ELSE /\ pc' = [pc EXCEPT ![p] = "done"]
            /\ outcome' = [outcome EXCEPT ![p] = "fail_validation"]
  /\ UNCHANGED <<services, endpoints, nextId, desired>>

\* cloud.search_services and the check that exactly one service matches.
SearchServices(p) ==
  /\ pc[p] = "search_services"
  /\ Issue(p)
  /\ LET services_list ==
           search_services(desired.service_name, desired.service_type)
     IN  /\ len_services_list' =
              [len_services_list EXCEPT ![p] = Cardinality(services_list)]
         /\ IF ~ServiceResolved(Cardinality(services_list))
              THEN /\ Finish(p, "fail_service", changed[p])
                   /\ UNCHANGED service_id
              ELSE /\ service_id' = [service_id EXCEPT ![p] =
                                       (CHOOSE s \in services_list : TRUE).id]
                   /\ pc' = [pc EXCEPT ![p] = "search_endpoints"]
                   /\ UNCHANGED <<outcome, changed>>
  /\ UNCHANGED <<services, endpoints, nextId, desired, check_mode,
                 current_endpoint, len_endpoints_list, before, last, computed>>

\* get_endpoint, then main up to its first mutation call or its exit.
SearchEndpoints(p) ==
  /\ pc[p] = "search_endpoints"
  /\ Issue(p)
  /\ LET endpoints_list ==
           search_endpoints(EndpointFilters(service_id[p], desired.interface))
         cur == IF Cardinality(endpoints_list) = 1
                  THEN CHOOSE e \in endpoints_list : TRUE
                  ELSE NoEndpoint
         to == Decide(check_mode[p], cur, desired)
     IN  /\ len_endpoints_list' =
              [len_endpoints_list EXCEPT ![p] = Cardinality(endpoints_list)]
         /\ IF MultipleEndpoints(Cardinality(endpoints_list))
              THEN /\ Finish(p, "fail_multiple", changed[p])
                   /\ UNCHANGED <<current_endpoint, computed>>
              ELSE /\ current_endpoint' =
                        [current_endpoint EXCEPT ![p] = cur]
                   /\ computed' =
                        [computed EXCEPT ![p] =
                           IF cur = NoEndpoint /\ desired.state = "absent"
                             THEN FALSE
                             ELSE ComputeChanged(cur, desired)]
                   /\ IF to.pc = "done"
                        THEN Finish(p, "exit_json", to.changed)
                        ELSE /\ pc' = [pc EXCEPT ![p] = to.pc]
                             /\ changed' = [changed EXCEPT ![p] = to.changed]
                             /\ UNCHANGED outcome
  /\ UNCHANGED <<services, endpoints, nextId, desired, check_mode,
                 service_id, len_services_list, before, last>>

\* A remote that gives every created endpoint the same identity, so that a
\* second identical create adds nothing: what the remote's create is not.
CreatedUnderOneId(p) ==
  create_endpoint(MaxId, service_id[p], desired.interface, desired.url,
                  desired.region, Enabled(desired), desired.public_url,
                  desired.internal_url, desired.admin_url)

\* The endpoint the remote adds for the pending create_endpoint call.
Created(p) ==
  create_endpoint(nextId, service_id[p], desired.interface, desired.url,
                  desired.region, Enabled(desired), desired.public_url,
                  desired.internal_url, desired.admin_url)

\* changed and present and no current endpoint: create_endpoint.
CreateEndpoint(p) ==
  /\ pc[p] = "create"
  /\ nextId <= MaxId
  /\ Issue(p)
  /\ endpoints' = endpoints \cup {Created(p)}
  /\ nextId' = nextId + 1
  /\ Finish(p, "exit_json", TRUE)
  /\ UNCHANGED <<services, desired, check_mode, service_id, current_endpoint,
                 len_services_list, len_endpoints_list, before, last, computed>>

\* changed and present and a current endpoint, url given: update_endpoint.
\* The remote refuses the update of an endpoint it no longer has.
UpdateEndpoint(p) ==
  /\ pc[p] = "update"
  /\ Issue(p)
  /\ LET target == {e \in endpoints : e.id = current_endpoint[p].id}
     IN  IF target = {}
           THEN /\ Finish(p, "fail_remote", changed[p])
                /\ UNCHANGED endpoints
           ELSE /\ \E e \in target :
                     \E n \in update_endpoint(e, desired.url,
                                              desired.interface,
                                              desired.region) :
                       endpoints' = (endpoints \ {e}) \cup {n}
                /\ Finish(p, "exit_json", changed[p])
  /\ UNCHANGED <<services, nextId, desired, check_mode, service_id,
                 current_endpoint, len_services_list, len_endpoints_list,
                 before, last, computed>>

\* changed and present and a current endpoint, no url: the delete_endpoint
\* of delete and recreate.
DeleteForRecreate(p) ==
  /\ pc[p] = "delete_recreate"
  /\ Issue(p)
  /\ endpoints' = delete_endpoint(current_endpoint[p].id)
  /\ pc' = [pc EXCEPT ![p] = "recreate"]
  /\ UNCHANGED <<services, nextId, desired, check_mode, service_id,
                 current_endpoint, changed, len_services_list,
                 len_endpoints_list, outcome, before, last, computed>>

\* The create_endpoint of delete and recreate.
Recreate(p) ==
  /\ pc[p] = "recreate"
  /\ nextId <= MaxId
  /\ Issue(p)
  /\ endpoints' = endpoints \cup {Created(p)}
  /\ nextId' = nextId + 1
  /\ Finish(p, "exit_json", changed[p])
  /\ UNCHANGED <<services, desired, check_mode, service_id, current_endpoint,
                 len_services_list, len_endpoints_list, before, last, computed>>

\* not changed and absent: delete_endpoint, changed = True.
DeleteEndpoint(p) ==
  /\ pc[p] = "delete"
  /\ Issue(p)
  /\ endpoints' = delete_endpoint(current_endpoint[p].id)
  /\ Finish(p, "exit_json", TRUE)
  /\ UNCHANGED <<services, nextId, desired, check_mode, service_id,
                 current_endpoint, len_services_list, len_endpoints_list,
                 before, last, computed>>

\* A failure handler that puts the deleted endpoint back when the create of
\* delete and recreate raises: what the except clause is not.
RemoteErrorWithRollback(p) ==
  /\ pc[p] \in RemotePcs
  /\ Issue(p)
  /\ Finish(p, "fail_remote", changed[p])
  /\ endpoints' = IF pc[p] = "recreate"
                    THEN endpoints \cup {current_endpoint[p]}
                    ELSE endpoints
  /\ UNCHANGED <<services, nextId, desired, check_mode, service_id,
                 current_endpoint, len_services_list, len_endpoints_list,
                 before, last, computed>>

\* The pending remote call raises shade.OpenStackCloudException: fail_json.
RemoteError(p) ==
  /\ pc[p] \in RemotePcs
  /\ Issue(p)
  /\ Finish(p, "fail_remote", changed[p])
  /\ UNCHANGED <<services, endpoints, nextId, desired, check_mode, service_id,
                 current_endpoint, len_services_list, len_endpoints_list,
                 before, last, computed>>

\* One invocation after the other, all with the same parameters.
Next ==
  \/ Start(1)
  \/ SearchServices(1)
  \/ SearchEndpoints(1)
  \/ CreateEndpoint(1)
  \/ UpdateEndpoint(1)
  \/ DeleteForRecreate(1)
  \/ Recreate(1)
  \/ DeleteEndpoint(1)
  \/ RemoteError(1)

Spec == Init /\ [][Next]_vars

\* The same invocations, started with any parameters.
SpecAnyInput == InitAnyInput /\ [][Next]_vars

\* Two invocations with the same parameters run at the same time against
\* the one remote, each once, their remote calls interleaved in any order.
InitRace ==
  /\ InitWith({d \in Descriptors : Valid(d)})
  /\ services = {Keystone1, Nova}
  /\ \E es \in {{}} \cup {{e} : e \in CrossV3 \cup CrossV2} :
       endpoints = es \cup {OtherEndpoint}

StartOnce(p) == pc[p] = "idle" /\ Start(p)

NextRace ==
  \E p \in Procs :
    \/ StartOnce(p)
    \/ SearchServices(p)
    \/ SearchEndpoints(p)
    \/ CreateEndpoint(p)
    \/ UpdateEndpoint(p)
    \/ DeleteForRecreate(p)
    \/ Recreate(p)
    \/ DeleteEndpoint(p)
    \/ RemoteError(p)

SpecRace == InitRace /\ [][NextRace]_vars

\* ------------------------------------------------------------- vocabulary
Done(p) == pc[p] = "done"
Succeeded(p) == Done(p) /\ outcome[p] = "exit_json"
Failed(p) ==
  Done(p) /\ outcome[p] \in {"fail_validation", "fail_service",
                             "fail_multiple", "fail_remote"}
MutationCalls(p) == CallsOf(calls[p], Mutations)

\* ------------------------------------------------------------- claims
\* C1 (idempotence): when the previous invocation ran outside check mode,
\* completed with exit_json and reported changed=True, the invocation that
\* follows it with the same parameters and completes reports changed=False
\* and issues no create, update or delete call.
Idempotence ==
  (/\ Succeeded(1)
   /\ last[1].outcome = "exit_json"
   /\ ~last[1].check_mode
   /\ last[1].changed)
    => (~changed[1] /\ MutationCalls(1) = <<>>)

\* C2 (dry-run is non-destructive): an invocation in check mode never issues
\* a create, update or delete call and leaves the remote's endpoints as they
\* were when it started, whatever changed it computed.
DryRunNonDestructive ==
  (check_mode[1] /\ pc[1] # "idle")
    => (MutationCalls(1) = <<>> /\ endpoints = before[1])

\* C2 witness: a check-mode invocation has completed with changed=True.
DryRunReportedChange == check_mode[1] /\ Succeeded(1) /\ changed[1]

\* C3 (deletion): outside check mode with state=absent, an invocation that
\* found exactly one endpoint and completed has issued exactly one mutation
\* call, delete_endpoint on that endpoint's id, and reports changed=True.
DeletionOfExisting ==
  (/\ Succeeded(1)
   /\ ~check_mode[1]
   /\ desired.state = "absent"
   /\ len_endpoints_list[1] = 1)
    => (/\ MutationCalls(1) =
             <<[op |-> "delete_endpoint", id |-> current_endpoint[1].id]>>
        /\ changed[1])

\* The precondition of C4 once get_endpoint has returned: outside check mode,
\* state=present, no url, and a current endpoint whose admin url differs
\* from the desired one.
V2AdminUrlDrift ==
  /\ pc[1] # "idle"
  /\ ~check_mode[1]
  /\ desired.state = "present"
  /\ ~Truthy(desired.url)
  /\ len_endpoints_list[1] = 1
  /\ current_endpoint[1] # NoEndpoint
  /\ AttrDiffers(current_endpoint[1], "adminurl", desired.admin_url)

\* C4 (v2 update as replace): under V2AdminUrlDrift the mutation calls issued
\* so far are, in order, a beginning of <<delete_endpoint(current.id),
\* create_endpoint>>, update_endpoint is never among them, and an invocation
\* that completed has issued exactly the two.
V2UpdateAsReplace ==
  V2AdminUrlDrift
    => LET m == MutationCalls(1)
       IN  /\ Len(m) <= 2
           /\ Len(m) >= 1 =>
                m[1] = [op |-> "delete_endpoint",
                        id |-> current_endpoint[1].id]
           /\ Len(m) = 2 => m[2].op = "create_endpoint"
           /\ Succeeded(1) => Len(m) = 2

\* C4 witness: the replace has completed.
V2Replaced == V2AdminUrlDrift /\ Succeeded(1)

\* The precondition of C5 once get_endpoint has returned: outside check mode,
\* state=present, url given, and a current endpoint that has the desired url
\* and enabled value and another region.
V3RegionOnlyDrift ==
  /\ pc[1] # "idle"
  /\ ~check_mode[1]
  /\ desired.state = "present"
  /\ Truthy(desired.url)
  /\ len_endpoints_list[1] = 1
  /\ current_endpoint[1] # NoEndpoint
  /\ current_endpoint[1].url = desired.url
  /\ current_endpoint[1].enabled = Enabled(desired)
  /\ AttrDiffers(current_endpoint[1], "region", desired.region)

\* C5 (v3 partial update): under V3RegionOnlyDrift no delete_endpoint or
\* create_endpoint call is ever issued, and an invocation that completed has
\* issued exactly one mutation call, update_endpoint on current.id with the
\* desired region and the current endpoint's url and interface, and reports
\* changed=True.
V3PartialUpdate ==
  V3RegionOnlyDrift
    => /\ CallsOf(calls[1], {"delete_endpoint", "create_endpoint"}) = <<>>
       /\ Succeeded(1) =>
            /\ MutationCalls(1) =
                 <<[op |-> "update_endpoint", id |-> current_endpoint[1].id,
                    url |-> current_endpoint[1].url,
                    interface |-> current_endpoint[1].interface,
                    region |-> desired.region]>>
            /\ changed[1]

\* C5 witness: the update to another region has completed.
V3RegionUpdated ==
  V3RegionOnlyDrift /\ Succeeded(1) /\ desired.region \in Regions

\* C6 (absent on absent): with state=absent, an invocation whose endpoint
\* lookup returned no match ends with exit_json(changed=False) and has issued
\* no create, update or delete call, in check mode and outside it.
AbsentOnAbsent ==
  (desired.state = "absent" /\ len_endpoints_list[1] = 0)
    => (Succeeded(1) /\ ~changed[1] /\ MutationCalls(1) = <<>>)

\* C6 witness: such an invocation outside check mode.
AbsentOnAbsentReal ==
  desired.state = "absent" /\ len_endpoints_list[1] = 0 /\ ~check_mode[1]

\* The remote's endpoints that the invocation's lookup matches.
Matching ==
  search_endpoints(EndpointFilters(Keystone1.id, desired.interface))

\* The remote state of C7: state=present with a url, and the one endpoint
\* the lookup matches has the desired url and region and another enabled
\* value.
RemoteEnabledDrift ==
  /\ desired.state = "present"
  /\ Truthy(desired.url)
  /\ Cardinality(Matching) = 1
  /\ \A e \in Matching :
       /\ e.url = desired.url
       /\ ~AttrDiffers(e, "region", desired.region)
       /\ e.enabled # Enabled(desired)

\* What an invocation that completed on such a remote state has done: it
\* reports changed=True; outside check mode it issued exactly one mutation
\* call, update_endpoint with url, interface and region and nothing else, and
\* the endpoint's enabled value is what it was.
EnabledDriftRun ==
  (/\ Succeeded(1)
   /\ desired.state = "present"
   /\ Truthy(desired.url)
   /\ len_endpoints_list[1] = 1
   /\ current_endpoint[1].url = desired.url
   /\ ~AttrDiffers(current_endpoint[1], "region", desired.region)
   /\ current_endpoint[1].enabled # Enabled(desired))
    => /\ changed[1]
       /\ ~check_mode[1] =>
            /\ MutationCalls(1) =
                 <<[op |-> "update_endpoint", id |-> current_endpoint[1].id,
                    url |-> desired.url, interface |-> desired.interface,
                    region |-> desired.region]>>
            /\ \E e \in endpoints :
                 /\ e.id = current_endpoint[1].id
                 /\ e.enabled = current_endpoint[1].enabled

\* C7 (enabled-only drift under v3): every completed invocation on a remote
\* state with enabled-only drift behaves as EnabledDriftRun says, and no step
\* of any invocation ends the drift: the remote's enabled value never becomes
\* the desired one, so every later invocation finds the same drift.
EnabledDriftNeverConverges ==
  /\ []EnabledDriftRun
  /\ [][RemoteEnabledDrift => RemoteEnabledDrift']_vars

\* C7 witness: two invocations outside check mode in a row have completed on
\* the drift, both reporting changed=True.
EnabledDriftTwice ==
  /\ RemoteEnabledDrift
  /\ Succeeded(1) /\ ~check_mode[1] /\ changed[1]
  /\ Len(MutationCalls(1)) = 1
  /\ last[1].outcome = "exit_json" /\ ~last[1].check_mode /\ last[1].changed

\* C8 (create): outside check mode with state=present, an invocation whose
\* lookup returned no match never issues a delete or update call, and once
\* completed it has issued exactly one mutation call, create_endpoint for the
\* resolved service with the desired interface, url, region, enabled,
\* public_url, internal_url and admin_url, and reports changed=True.
CreateWhenMissing ==
  (~check_mode[1] /\ desired.state = "present" /\ len_endpoints_list[1] = 0)
    => /\ CallsOf(calls[1], {"delete_endpoint", "update_endpoint"}) = <<>>
       /\ Succeeded(1) =>
            /\ MutationCalls(1) =
                 <<[op |-> "create_endpoint",
                    service_id |->
                      (CHOOSE s \in search_services(desired.service_name,
                                                    desired.service_type) :
                         TRUE).id,
                    interface |-> desired.interface, url |-> desired.url,
                    region |-> desired.region,
                    enabled |-> (desired.enabled = "True"),
                    public_url |-> desired.public_url,
                    internal_url |-> desired.internal_url,
                    admin_url |-> desired.admin_url]>>
            /\ changed[1]

\* C8 witness: a create with the three v2 urls has completed.
CreatedV2 ==
  /\ ~check_mode[1] /\ desired.state = "present" /\ len_endpoints_list[1] = 0
  /\ Succeeded(1)
  /\ desired.public_url # NONE /\ desired.internal_url # NONE
  /\ desired.admin_url # NONE

\* C9 (service resolution failure): when search_services returned no match
\* or more than one, the invocation has ended with the service failure, has
\* not called search_endpoints, has issued no create, update or delete call,
\* and the remote's endpoints are what they were.
ServiceResolutionFailure ==
  (len_services_list[1] >= 0 /\ len_services_list[1] # 1)
    => /\ Done(1) /\ outcome[1] = "fail_service"
       /\ CallsOf(calls[1], {"search_endpoints"}) = <<>>
       /\ MutationCalls(1) = <<>>
       /\ endpoints = before[1]

\* C9 witness: search_services returned two services.
TwoServicesFound == len_services_list[1] = 2

\* C10 (ambiguous endpoint failure): more than one match ends the invocation
\* with the multiple-endpoints failure and no create, update or delete call,
\* whatever the state and the mode; no match is not that failure and leaves
\* current_endpoint None; and the filters of every search_endpoints call are
\* the service id, with the interface exactly when the interface is given.
AmbiguousEndpointFailure ==
  /\ len_endpoints_list[1] > 1 =>
       (Done(1) /\ outcome[1] = "fail_multiple" /\ MutationCalls(1) = <<>>)
  /\ len_endpoints_list[1] = 0 =>
       (outcome[1] # "fail_multiple" /\ current_endpoint[1] = NoEndpoint)
  /\ \A i \in 1..Len(calls[1]) :
       calls[1][i].op = "search_endpoints" =>
         calls[1][i].filters =
           IF desired.interface # NONE
             THEN [service_id |-> service_id[1],
                   interface |-> desired.interface]
             ELSE [service_id |-> service_id[1]]

\* C10 witness: a lookup with the interface in its filters returned two
\* endpoints.
TwoEndpointsFound ==
  len_endpoints_list[1] = 2 /\ desired.interface # NONE

\* C11 (schema exclusivity): an invocation given both url and public_url has
\* ended in the argument-check failure and has issued no remote call at all
\* (no search_services, search_endpoints, create, update or delete), and the
\* remote's endpoints are what they were.
SchemaExclusivity ==
  (pc[1] # "idle" /\ desired.url # NONE /\ desired.public_url # NONE)
    => /\ Done(1) /\ outcome[1] = "fail_validation"
       /\ calls[1] = <<>>
       /\ endpoints = before[1]

\* C11 witness: url with interface and public_url, and nothing else wrong,
\* has been refused.
UrlAndPublicUrlRefused ==
  /\ Done(1) /\ outcome[1] = "fail_validation"
  /\ desired.url # NONE /\ desired.public_url # NONE
  /\ desired.interface # NONE
  /\ desired.admin_url = NONE /\ desired.internal_url = NONE

\* The region rule on the current endpoint: it has a region other than the
\* desired one, or it has no region attribute and a region is desired.
RegionRule ==
  \/ "region" \in DOMAIN current_endpoint[1]
       /\ current_endpoint[1].region # desired.region
  \/ "region" \notin DOMAIN current_endpoint[1] /\ desired.region # NONE

\* C12 (v3 comparison): with a url and exactly one endpoint found, the
\* computed changed is true exactly when the desired enabled differs from the
\* endpoint's, or the desired url differs from the endpoint's, or the region
\* rule fires.
V3Comparison ==
  (len_endpoints_list[1] = 1 /\ desired.url # NONE)
    => (computed[1] <=>
          \/ current_endpoint[1].enabled # (desired.enabled = "True")
          \/ current_endpoint[1].url # desired.url
          \/ RegionRule)

\* C12 witness: a descriptor identical to the endpoint, enabled=False
\* included, computed changed=False.
V3Identical ==
  /\ len_endpoints_list[1] = 1 /\ desired.url # NONE
  /\ "region" \in DOMAIN current_endpoint[1]
  /\ current_endpoint[1].region = desired.region
  /\ current_endpoint[1].url = desired.url
  /\ ~current_endpoint[1].enabled /\ desired.enabled = "False"
  /\ ~computed[1]

\* Whether the desired value v differs from attribute a of the current
\* endpoint, an endpoint without the attribute differing from non-null only.
UrlDiffers(a, v) ==
  \/ a \in DOMAIN current_endpoint[1] /\ current_endpoint[1][a] # v
  \/ a \notin DOMAIN current_endpoint[1] /\ v # NONE

AnyV2UrlDiffers ==
  \/ UrlDiffers("internalurl", desired.internal_url)
  \/ UrlDiffers("adminurl", desired.admin_url)
  \/ UrlDiffers("publicurl", desired.public_url)

\* C13 as stated (v2 comparison): without a url and with exactly one
\* endpoint found, the computed changed is true exactly when one of
\* internal_url, admin_url, public_url differs from the endpoint's.
V2ComparisonUrlsOnly ==
  (len_endpoints_list[1] = 1 /\ desired.url = NONE)
    => (computed[1] <=> AnyV2UrlDiffers)

\* C13 as amended: ... exactly when one of internal_url, admin_url,
\* public_url differs from the endpoint's or the region rule fires.
V2Comparison ==
  (len_endpoints_list[1] = 1 /\ desired.url = NONE)
    => (computed[1] <=> (AnyV2UrlDiffers \/ RegionRule))

\* C13 witness: the three urls agree, the region differs, computed
\* changed=True.
V2RegionOnlyDrift ==
  /\ len_endpoints_list[1] = 1 /\ desired.url = NONE
  /\ ~AnyV2UrlDiffers /\ RegionRule /\ computed[1]

\* C14 (dry-run report): a check-mode invocation whose lookup found at most
\* one endpoint has ended with exit_json right after the lookup, its only
\* remote calls being the two searches; with state=absent it reports
\* changed=False, with state=present the computed changed.
DryRunReport ==
  (check_mode[1] /\ len_endpoints_list[1] \in {0, 1})
    => /\ Succeeded(1)
       /\ Len(calls[1]) = 2
       /\ calls[1][1].op = "search_services"
       /\ calls[1][2].op = "search_endpoints"
       /\ desired.state = "absent" => ~changed[1]
       /\ desired.state = "present" => changed[1] = computed[1]

\* C14 witness: check mode, state=absent, an endpoint that differs from the
\* descriptor: computed changed=True, reported changed=False.
DryRunAbsentForced ==
  /\ check_mode[1] /\ Succeeded(1) /\ desired.state = "absent"
  /\ len_endpoints_list[1] = 1 /\ computed[1] /\ ~changed[1]

\* C15 (the changed-and-absent branch is unreachable): with state=absent and
\* exactly one endpoint found, the comparison never computes changed=True.
ChangedAbsentUnreachable ==
  (desired.state = "absent" /\ len_endpoints_list[1] = 1) => ~computed[1]

\* C16 (no rollback on partial failure): when the delete_endpoint of delete
\* and recreate went through and the create_endpoint after it raised, the
\* invocation has ended in the remote failure, the failed create is its last
\* call, and the remote's endpoints are those it started with less the
\* current endpoint.
NoRollback ==
  (/\ Done(1)
   /\ Len(MutationCalls(1)) = 2
   /\ MutationCalls(1)[1].op = "delete_endpoint"
   /\ outcome[1] # "exit_json")
    => /\ outcome[1] = "fail_remote"
       /\ calls[1][Len(calls[1])].op = "create_endpoint"
       /\ endpoints = before[1] \ {current_endpoint[1]}
       /\ current_endpoint[1] \in before[1]
       /\ search_endpoints(EndpointFilters(service_id[1],
                                           desired.interface)) = {}

\* C16 witness: such a failed recreate.
RecreateFailed ==
  /\ Done(1) /\ outcome[1] = "fail_remote"
  /\ Len(MutationCalls(1)) = 2
  /\ MutationCalls(1)[1].op = "delete_endpoint"

\* C18 (single-resource frame): every delete_endpoint and update_endpoint
\* call of an invocation carries the id of the one endpoint its own
\* search_endpoints returned, none is issued when that search matched
\* nothing, and every other endpoint the remote had when the invocation
\* started is still there unchanged.
SingleResourceFrame ==
  /\ \A i \in 1..Len(calls[1]) :
       calls[1][i].op \in {"delete_endpoint", "update_endpoint"}
         => /\ len_endpoints_list[1] = 1
            /\ current_endpoint[1] \in before[1]
            /\ search_endpoints(calls[1][2].filters) \cap before[1]
                 \subseteq {current_endpoint[1]}
            /\ calls[1][i].id = current_endpoint[1].id
  /\ pc[1] # "idle"
       => \A e \in before[1] :
            e.id # current_endpoint[1].id => e \in endpoints

\* C18 witness: a delete that went through beside another endpoint of the
\* same service, which is still there.
DeletedBesideSibling ==
  /\ Succeeded(1)
  /\ Len(MutationCalls(1)) = 1
  /\ MutationCalls(1)[1].op = "delete_endpoint"
  /\ \E e \in endpoints : e.service_id = service_id[1]

\* C19 (reported result matches effect): a successful invocation outside
\* check mode reports changed=True exactly when it issued a create, update
\* or delete call.
ReportMatchesEffect ==
  (Succeeded(1) /\ ~check_mode[1])
    => (changed[1] <=> MutationCalls(1) # <<>>)

\* C19 witness: state=absent on a drifted endpoint, reported unchanged and
\* nothing issued.
AbsentDriftNoCall ==
  /\ Succeeded(1) /\ ~check_mode[1]
  /\ desired.state = "absent" /\ computed[1]
  /\ ~changed[1] /\ MutationCalls(1) = <<>>

\* C20 (dry-run fidelity for state=present): a successful invocation outside
\* check mode with state=present, started right after a check-mode
\* invocation on the same remote state, reports the changed value the
\* check-mode invocation reported.
DryRunFidelity ==
  (/\ Succeeded(1) /\ ~check_mode[1]
   /\ desired.state = "present"
   /\ last[1].check_mode /\ last[1].outcome = "exit_json")
    => changed[1] = last[1].changed

\* C20 witness: a check-mode invocation that reported a change, then the
\* real one that made it.
DryRunThenReal ==
  /\ Succeeded(1) /\ ~check_mode[1]
  /\ desired.state = "present"
  /\ last[1].check_mode /\ last[1].outcome = "exit_json"
  /\ last[1].changed /\ changed[1] /\ MutationCalls(1) # <<>>

\* The endpoints the filter of the invocations matches now.
MatchingTheFilter ==
  search_endpoints(EndpointFilters(service_id[1], desired.interface))

\* C17 (uncoordinated race): when two concurrent invocations outside check
\* mode with state=present, started when no endpoint matched, have both
\* found no current endpoint and both completed, each has issued one
\* create_endpoint and two endpoints match the one filter.
RaceDoubleCreate ==
  (\A p \in Procs : /\ Succeeded(p) /\ ~check_mode[p]
                    /\ desired.state = "present"
                    /\ len_endpoints_list[p] = 0)
    => /\ \A p \in Procs :
            /\ Len(MutationCalls(p)) = 1
            /\ MutationCalls(p)[1].op = "create_endpoint"
       /\ Cardinality(MatchingTheFilter) = 2

\* C17 witness: both invocations searched before either created, and both
\* created.
BothCreated ==
  /\ \A p \in Procs : /\ Succeeded(p) /\ ~check_mode[p]
                      /\ desired.state = "present"
                      /\ len_endpoints_list[p] = 0
                      /\ before[p] = {OtherEndpoint}
                      /\ calls[p][Len(calls[p])].op = "create_endpoint"
  /\ Cardinality(MatchingTheFilter) = 2
====
